---------------------------- MODULE Spec2Model ----------------------------
(***************************************************************************)
(* A model of the momentum repository: the suggestion pipeline of          *)
(* server/routine.py (two external requests with response validation) and  *)
(* the interactive profile collector and report renderer of server/quiz.py *)
(* (quiz.py is the console-only variant of the same collector).            *)
(*                                                                         *)
(* Strings are sequences of atoms.  An atom is a TLA+ string: one          *)
(* character of user input, or one fixed piece of a template literal of    *)
(* the source.  Formatting (f-strings, join) is concatenation of such      *)
(* sequences.  Python values are records tagged by their type in field t.  *)
(***************************************************************************)
EXTENDS Integers, Sequences, FiniteSets, TLC

VARIABLES
    \* ---- server/routine.py ----
    pc,               \* position of the pipeline run
    profile_file,     \* the report file on disk, as the run finds it
    student_profile,  \* text read by stage A
    suggestion_text,  \* what stage A returned to the entry point
    json_string,      \* raw text returned by the stage B request
    json_events,      \* what stage B returned to the entry point
    out,              \* everything printed, in order
    clients,          \* stages that constructed a Groq client, in order
    requests,         \* stages that issued a request, in order
    uncaught,         \* exception that left a function uncaught, or "none"
    faults,           \* history: the faults that occurred, as (stage, class)
    served,           \* history: message contents the service returned
    \* ---- server/quiz.py ----
    qpc,              \* the prompt main() is waiting at
    responses,        \* the responses dict of main()
    commitments,      \* local list of get_fixed_commitments
    entry,            \* answers given so far for the commitment being entered
    items,            \* local list of get_list_items
    printed,          \* the last line print() wrote while collecting
    disk,             \* profile.txt
    console,          \* what print_summary printed, in order
    quncaught,        \* exception that left the collector uncaught, or "none"
    last_raw,         \* history: the line the user typed last
    rejected,         \* history: inputs the current menu turned down (saturating)
    typed,            \* history: the lines typed at each list's terminating prompt
                      \* and at the follow-up questions of the commitments
    wexc              \* history: the fault of the write of profile.txt, or "none"

rvars == <<pc, profile_file, student_profile, suggestion_text, json_string,
           json_events, out, clients, requests, uncaught, faults, served>>

qvars == <<qpc, responses, commitments, entry, items, printed, disk, console,
           quncaught, last_raw, rejected, typed, wexc>>

vars == <<rvars, qvars>>

-----------------------------------------------------------------------------
(* Bounds *)

MaxJsonLen == 4

MaxChoiceLen == 2

MaxRejected == 2

MaxItems == 2

MaxCommitments == 2

MaxDowntimeLen == 4

-----------------------------------------------------------------------------
(* Python values *)

PyNone == [t |-> "None"]
PyStr(s) == [t |-> "str", s |-> s]
PyList(elems) == [t |-> "list", items |-> elems]
PyDict(members) == [t |-> "dict", members |-> members]

\* bool(v) for the values the pipeline tests with `if`
Truthy(v) ==
    CASE v.t = "None" -> FALSE
      [] v.t = "str"  -> Len(v.s) > 0
      [] v.t = "list" -> Len(v.items) > 0
      [] v.t = "dict" -> Len(v.members) > 0

SeqsUpTo(S, n) == UNION {[1..k -> S] : k \in 0..n}

-----------------------------------------------------------------------------
(* Exceptions: the classes the pipeline's operations raise, and Python's   *)
(* rule for which except clause catches which class.                       *)

Parent ==
    [FileNotFoundError  |-> "OSError",
     PermissionError    |-> "OSError",
     OSError            |-> "Exception",
     UnicodeDecodeError |-> "ValueError",
     JSONDecodeError    |-> "ValueError",
     ValueError         |-> "Exception",
     TypeError          |-> "Exception",
     IndexError         |-> "Exception",
     GroqError          |-> "Exception",
     APIConnectionError |-> "GroqError",
     AuthenticationError |-> "GroqError",
     RateLimitError     |-> "GroqError",
     Exception          |-> "BaseException"]

RECURSIVE IsInstance(_, _)
IsInstance(e, cls) ==
    \/ e = cls
    \/ e \in DOMAIN Parent /\ IsInstance(Parent[e], cls)

\* index of the first except clause that catches e, 0 when none does
FirstHandler(clauses, e) ==
    LET hit == {i \in 1..Len(clauses) : IsInstance(e, clauses[i])}
    IN  IF hit = {} THEN 0 ELSE CHOOSE i \in hit : \A j \in hit : i <= j

-----------------------------------------------------------------------------
(* json.loads, on the token sequence of the text.  Whitespace between      *)
(* tokens carries no meaning in JSON and is left out of the texts.         *)

JsonStringTokens == {"\"events\"", "\"title\""}

JsonTokens == {"{", "}", "[", "]", ":", ",", "null"} \cup JsonStringTokens

\* the str a JSON string token denotes
StringOf(tok) == IF tok = "\"events\"" THEN <<"events">> ELSE <<"title">>

\* d[k] = v on a dict kept as its (key, value) pairs in insertion order
DictSet(members, k, v) ==
    IF \E i \in 1..Len(members) : members[i][1] = k
    THEN [i \in 1..Len(members) |->
             IF members[i][1] = k THEN <<k, v>> ELSE members[i]]
    ELSE Append(members, <<k, v>>)

ParseFail == [ok |-> FALSE, val |-> PyNone, pos |-> 0]
ParseOk(v, p) == [ok |-> TRUE, val |-> v, pos |-> p]

RECURSIVE ParseValue(_, _), ParseElements(_, _, _), ParseMembers(_, _, _)

\* one JSON value starting at token i
ParseValue(s, i) ==
    IF i > Len(s) THEN ParseFail
    ELSE IF s[i] \in JsonStringTokens THEN ParseOk(PyStr(StringOf(s[i])), i + 1)
    ELSE IF s[i] = "null" THEN ParseOk(PyNone, i + 1)
    ELSE IF s[i] = "["
         THEN IF i + 1 <= Len(s) /\ s[i + 1] = "]"
              THEN ParseOk(PyList(<<>>), i + 2)
              ELSE ParseElements(s, i + 1, <<>>)
    ELSE IF s[i] = "{"
         THEN IF i + 1 <= Len(s) /\ s[i + 1] = "}"
              THEN ParseOk(PyDict(<<>>), i + 2)
              ELSE ParseMembers(s, i + 1, <<>>)
    ELSE ParseFail

\* value (, value)* ]
ParseElements(s, i, acc) ==
    LET r == ParseValue(s, i)
    IN  IF ~r.ok \/ r.pos > Len(s) THEN ParseFail
        ELSE IF s[r.pos] = "]" THEN ParseOk(PyList(Append(acc, r.val)), r.pos + 1)
        ELSE IF s[r.pos] = "," THEN ParseElements(s, r.pos + 1, Append(acc, r.val))
        ELSE ParseFail

\* string : value (, string : value)* }
ParseMembers(s, i, acc) ==
    IF i + 1 > Len(s) \/ s[i] \notin JsonStringTokens \/ s[i + 1] # ":"
    THEN ParseFail
    ELSE LET r == ParseValue(s, i + 2)
             m == DictSet(acc, StringOf(s[i]), r.val)
         IN  IF ~r.ok \/ r.pos > Len(s) THEN ParseFail
             ELSE IF s[r.pos] = "}" THEN ParseOk(PyDict(m), r.pos + 1)
             ELSE IF s[r.pos] = "," THEN ParseMembers(s, r.pos + 1, m)
             ELSE ParseFail

\* json.loads(text): the value, or JSONDecodeError; a text that is None
\* (not a str) is a TypeError
json_loads(text) ==
    IF text.t # "str" THEN [exc |-> "TypeError", val |-> PyNone]
    ELSE LET r == ParseValue(text.s, 1)
         IN  IF r.ok /\ r.pos = Len(text.s) + 1
             THEN [exc |-> "none", val |-> r.val]
             ELSE [exc |-> "JSONDecodeError", val |-> PyNone]

RECURSIVE json_dumps(_), DumpItems(_), DumpMembers(_)

\* json.dumps(v, indent=2), tokens only
json_dumps(v) ==
    CASE v.t = "None" -> <<"null">>
      [] v.t = "str"  -> <<"\"">> \o v.s \o <<"\"">>
      [] v.t = "list" -> <<"[">> \o DumpItems(v.items) \o <<"]">>
      [] v.t = "dict" -> <<"{">> \o DumpMembers(v.members) \o <<"}">>

DumpItems(elems) ==
    IF elems = <<>> THEN <<>>
    ELSE json_dumps(Head(elems))
         \o (IF Len(elems) > 1 THEN <<",">> ELSE <<>>) \o DumpItems(Tail(elems))

DumpMembers(ms) ==
    IF ms = <<>> THEN <<>>
    ELSE <<"\"">> \o Head(ms)[1] \o <<"\"", ":">> \o json_dumps(Head(ms)[2])
         \o (IF Len(ms) > 1 THEN <<",">> ELSE <<>>) \o DumpMembers(Tail(ms))

-----------------------------------------------------------------------------
(* The environment of a pipeline run *)

SampleReport == <<" STUDENT WELLNESS & HABITS PROFILE", "\n", "* Living Situation: ",
                  "On-Campus Resident">>

\* profile.txt as the run finds it: absent, present but unreadable
\* (permissions, undecodable bytes), or readable
ProfileFiles ==
    {[exc |-> "FileNotFoundError", content |-> <<>>],
     [exc |-> "PermissionError", content |-> <<>>],
     [exc |-> "UnicodeDecodeError", content |-> SampleReport],
     [exc |-> "none", content |-> <<>>],
     [exc |-> "none", content |-> SampleReport]}

\* open(profile_filepath, 'r', encoding='utf-8') and f.read()
open_read(file) == [exc |-> file.exc, val |-> PyStr(file.content)]

\* Groq(): the client, or the fault of a missing or invalid configuration
ClientOutcomes == {"none", "GroqError"}

ServiceFaults == {"APIConnectionError", "AuthenticationError", "RateLimitError"}

\* client.chat.completions.create(...): a fault, or a completion whose
\* choices carry the message contents
ApiOutcomes(contents) ==
    {[exc |-> e, choices |-> <<>>] : e \in ServiceFaults}
    \cup {[exc |-> "none", choices |-> <<>>]}
    \cup {[exc |-> "none", choices |-> <<c>>] : c \in contents}

\* chat_completion.choices[0].message.content
FirstContent(resp) ==
    IF resp.exc # "none" THEN [exc |-> resp.exc, val |-> PyNone]
    ELSE IF Len(resp.choices) = 0 THEN [exc |-> "IndexError", val |-> PyNone]
    ELSE [exc |-> "none", val |-> resp.choices[1]]

AdviceTexts ==
    {PyNone, PyStr(<<>>), PyStr(<<"Study at the library from 9 to 11 AM.">>)}

SampleDocs ==
    {<<"{", "\"events\"", ":", "[", "]", "}">>,
     <<"{", "\"events\"", ":", "[", "{", "\"title\"", ":", "\"title\"", "}", "]", "}">>,
     <<"{", "\"events\"", ":", "\"title\"", "}">>,
     <<"{", "\"events\"", ":", "[", "{", "\"title\"", ":", "}", "]", "}">>,
     <<"{", "\"title\"", ":", "[", "]", ",", "\"events\"", ":", "null", "}">>}

\* what the stage B request may return as message content
JsonTexts ==
    {PyNone} \cup {PyStr(s) : s \in SeqsUpTo(JsonTokens, MaxJsonLen) \cup SampleDocs}

\* what print(v) writes for a str or None
Printed(v) == IF v.t = "None" THEN <<"None">> ELSE v.s

-----------------------------------------------------------------------------
(* suggest_events_from_profile *)

\* variant: the first clause written too wide, so every read fault is
\* reported as a missing file
ReadHandlersWide == <<"Exception", "Exception">>

\* the except clauses around the file read
ReadHandlers == <<"FileNotFoundError", "Exception">>

\* variant: a clause that catches I/O faults only
ClientHandlersNarrow == <<"OSError">>

\* the except clause around Groq() and around the request, in both stages
ClientHandlers == <<"Exception">>
ApiHandlers == <<"Exception">>

\* variant: no clause of its own for a decode fault, which then reaches the
\* clause around the request
JsonHandlersNone == <<>>

\* the except clause around json.loads
JsonHandlers == <<"JSONDecodeError">>

\* an exception no clause caught leaves the function and the entry point
Propagate(e) ==
    /\ uncaught' = e
    /\ pc' = "uncaught"

\* history of the faults: an operation that ended with exception e in a stage
Fault(stage, e) ==
    faults' = IF e = "none" THEN faults ELSE Append(faults, <<stage, e>>)

\* stage A returns v to the entry point
ReturnA(v) ==
    /\ suggestion_text' = v
    /\ pc' = "main_after_A"

A_ReadProfile ==
    /\ pc = "A_read"
    /\ UNCHANGED qvars
    /\ LET r == open_read(profile_file)
           h == FirstHandler(ReadHandlers, r.exc)
       IN  /\ Fault("A", r.exc)
           /\ IF r.exc = "none"
              THEN /\ student_profile' = r.val
                   /\ pc' = "A_client"
                   /\ UNCHANGED <<suggestion_text, out, uncaught>>
              ELSE IF h = 1
              THEN /\ out' = out \o
                        << <<"Error: The file '", "profile.txt", "' was not found.">>,
                           <<"Please run the quiz script first to generate the profile.">> >>
                   /\ ReturnA(PyNone)
                   /\ UNCHANGED <<student_profile, uncaught>>
              ELSE IF h = 2
              THEN /\ out' = Append(out, <<"Error reading file: ", r.exc>>)
                   /\ ReturnA(PyNone)
                   /\ UNCHANGED <<student_profile, uncaught>>
              ELSE /\ Propagate(r.exc)
                   /\ UNCHANGED <<student_profile, suggestion_text, out>>
    /\ UNCHANGED <<profile_file, json_string, json_events, clients, requests, served>>

A_InitClient ==
    /\ pc = "A_client"
    /\ UNCHANGED qvars
    /\ clients' = Append(clients, "A")
    /\ \E e \in ClientOutcomes :
          /\ Fault("A", e)
          /\ IF e = "none"
             THEN /\ out' = out \o
                       << <<"--- Analyzing Student Profile ---">>,
                          <<"Sending profile to Groq API for suggestions...", "\n">> >>
                  /\ pc' = "A_call"
                  /\ UNCHANGED <<suggestion_text, uncaught>>
             ELSE IF FirstHandler(ClientHandlers, e) = 1
             THEN /\ out' = out \o
                       << <<"Error initializing Groq client: ", e>>,
                          <<"Please ensure your GROQ_API_KEY is set correctly.">> >>
                  /\ ReturnA(PyNone)
                  /\ UNCHANGED uncaught
             ELSE /\ Propagate(e)
                  /\ UNCHANGED <<suggestion_text, out>>
    /\ UNCHANGED <<profile_file, student_profile, json_string, json_events, requests,
                   served>>

A_CallApi ==
    /\ pc = "A_call"
    /\ UNCHANGED qvars
    /\ requests' = Append(requests, "A")
    /\ \E resp \in ApiOutcomes(AdviceTexts) :
          LET r == FirstContent(resp)
          IN  /\ Fault("A", r.exc)
              /\ served' = served \o resp.choices
              /\ IF r.exc = "none"
                 THEN /\ out' = out \o
                           << <<"--- Advisor Suggestions ---">>, Printed(r.val) >>
                      /\ ReturnA(r.val)
                      /\ UNCHANGED uncaught
                 ELSE IF FirstHandler(ApiHandlers, r.exc) = 1
                 THEN /\ out' = out \o
                           << <<"Error during API call: ", r.exc>>,
                              <<"Please check your internet connection and API key.">> >>
                      /\ ReturnA(PyNone)
                      /\ UNCHANGED uncaught
                 ELSE /\ Propagate(r.exc)
                      /\ UNCHANGED <<suggestion_text, out>>
    /\ UNCHANGED <<profile_file, student_profile, json_string, json_events, clients>>

-----------------------------------------------------------------------------
(* convert_text_to_json_events *)

\* stage B returns v to the entry point
ReturnB(v) ==
    /\ json_events' = v
    /\ pc' = "main_after_B"

B_InitClient ==
    /\ pc = "B_client"
    /\ UNCHANGED qvars
    /\ clients' = Append(clients, "B")
    /\ \E e \in ClientOutcomes :
          /\ Fault("B", e)
          /\ IF e = "none"
             THEN /\ pc' = "B_call"
                  /\ UNCHANGED <<json_events, out, uncaught>>
             ELSE IF FirstHandler(ClientHandlers, e) = 1
             THEN /\ out' = out \o
                       << <<"Error initializing Groq client: ", e>>,
                          <<"Please ensure your GROQ_API_KEY is set correctly.">> >>
                  /\ ReturnB(PyNone)
                  /\ UNCHANGED uncaught
             ELSE /\ Propagate(e)
                  /\ UNCHANGED <<json_events, out>>
    /\ UNCHANGED <<profile_file, student_profile, suggestion_text, json_string, requests,
                   served>>

\* the request, then the validation of what it returned
B_CallApi ==
    /\ pc = "B_call"
    /\ UNCHANGED qvars
    /\ requests' = Append(requests, "B")
    /\ \E resp \in ApiOutcomes(JsonTexts) :
          LET r == FirstContent(resp)
              j == json_loads(r.val)
              e == IF r.exc # "none" THEN r.exc ELSE j.exc
              inner == r.exc = "none" /\ FirstHandler(JsonHandlers, j.exc) = 1
          IN  /\ Fault("B", e)
              /\ served' = served \o resp.choices
              /\ json_string' = IF r.exc = "none" THEN r.val ELSE json_string
              /\ IF e = "none"
                 THEN /\ out' = out \o
                           << <<"--- Extracted Calendar JSON ---">>, json_dumps(j.val) >>
                      /\ ReturnB(j.val)
                      /\ UNCHANGED uncaught
                 ELSE IF inner
                 THEN /\ out' = out \o
                           << <<"Error: LLM did not return valid JSON.">>,
                              <<"Raw output:", " ">> \o Printed(r.val) >>
                      /\ ReturnB(PyNone)
                      /\ UNCHANGED uncaught
                 ELSE IF FirstHandler(ApiHandlers, e) = 1
                 THEN /\ out' = out \o
                           << <<"Error during API call: ", e>>,
                              <<"Please check your internet connection and API key.">> >>
                      /\ ReturnB(PyNone)
                      /\ UNCHANGED uncaught
                 ELSE /\ Propagate(e)
                      /\ UNCHANGED <<json_events, out>>
    /\ UNCHANGED <<profile_file, student_profile, suggestion_text, clients>>

-----------------------------------------------------------------------------
(* the entry point of routine.py *)

\* variant: `if suggestion_text is not None:`
SuggestionNotNone(v) == v.t # "None"

\* `if suggestion_text:`
SuggestionOk(v) == Truthy(v)

\* `if json_events:`
EventsOk(v) == Truthy(v)

\* variant: stage A called again until it returns advice
Main_AfterARetry ==
    /\ pc = "main_after_A"
    /\ UNCHANGED qvars
    /\ IF SuggestionOk(suggestion_text)
       THEN /\ out' = Append(out, <<"\n", "--- Converting Suggestions to JSON ---">>)
            /\ pc' = "B_client"
       ELSE /\ pc' = "A_read"
            /\ UNCHANGED out
    /\ UNCHANGED <<profile_file, student_profile, suggestion_text, json_string,
                   json_events, clients, requests, uncaught, faults, served>>

Main_AfterA ==
    /\ pc = "main_after_A"
    /\ UNCHANGED qvars
    /\ IF SuggestionOk(suggestion_text)
       THEN /\ out' = Append(out, <<"\n", "--- Converting Suggestions to JSON ---">>)
            /\ pc' = "B_client"
       ELSE /\ pc' = "done"
            /\ UNCHANGED out
    /\ UNCHANGED <<profile_file, student_profile, suggestion_text, json_string,
                   json_events, clients, requests, uncaught, faults, served>>

Main_AfterB ==
    /\ pc = "main_after_B"
    /\ UNCHANGED qvars
    /\ out' = IF EventsOk(json_events)
              THEN Append(out, <<"\n", "Successfully generated JSON events.">>)
              ELSE out
    /\ pc' = "done"
    /\ UNCHANGED <<profile_file, student_profile, suggestion_text, json_string,
                   json_events, clients, requests, uncaught, faults, served>>


-----------------------------------------------------------------------------
(* Strings of user input: str.strip, str.lower, the `in` test, int()       *)

Whitespace == {" ", "\t"}

RECURSIVE LStrip(_), RStrip(_)
LStrip(s) == IF s # <<>> /\ Head(s) \in Whitespace THEN LStrip(Tail(s)) ELSE s
RStrip(s) ==
    IF s # <<>> /\ s[Len(s)] \in Whitespace THEN RStrip(SubSeq(s, 1, Len(s) - 1)) ELSE s

\* get_input: input(...).strip()
get_input(raw) == RStrip(LStrip(raw))

UpperToLower ==
    [A |-> "a", B |-> "b", C |-> "c", D |-> "d", E |-> "e", F |-> "f", G |-> "g",
     H |-> "h", I |-> "i", J |-> "j", K |-> "k", L |-> "l", M |-> "m", N |-> "n",
     O |-> "o", P |-> "p", Q |-> "q", R |-> "r", S |-> "s", T |-> "t", U |-> "u",
     V |-> "v", W |-> "w", X |-> "x", Y |-> "y", Z |-> "z"]

\* s.lower()
Lower(s) ==
    [i \in 1..Len(s) |-> IF s[i] \in DOMAIN UpperToLower THEN UpperToLower[s[i]] ELSE s[i]]

\* sub in s
Contains(s, sub) ==
    \E i \in 1..(Len(s) - Len(sub) + 1) : SubSeq(s, i, i + Len(sub) - 1) = sub

DigitValue ==
    [c \in {"0", "1", "2", "3", "4", "5", "6", "7", "8", "9"} |->
        CASE c = "0" -> 0 [] c = "1" -> 1 [] c = "2" -> 2 [] c = "3" -> 3
          [] c = "4" -> 4 [] c = "5" -> 5 [] c = "6" -> 6 [] c = "7" -> 7
          [] c = "8" -> 8 [] c = "9" -> 9]

RECURSIVE DigitsValue(_)
\* the number a run of digits and underscores denotes
DigitsValue(ds) ==
    IF ds = <<>> THEN 0
    ELSE IF ds[Len(ds)] = "_" THEN DigitsValue(SubSeq(ds, 1, Len(ds) - 1))
    ELSE 10 * DigitsValue(SubSeq(ds, 1, Len(ds) - 1)) + DigitValue[ds[Len(ds)]]

\* int(s): surrounding whitespace dropped, an optional sign, then digits with
\* single underscores allowed between digits; anything else is a ValueError
int(s0) ==
    LET s == get_input(s0)
        signed == s # <<>> /\ s[1] \in {"+", "-"}
        ds == IF signed THEN Tail(s) ELSE s
        wellformed ==
            /\ ds # <<>>
            /\ \A i \in 1..Len(ds) : ds[i] \in DOMAIN DigitValue \cup {"_"}
            /\ ds[1] # "_" /\ ds[Len(ds)] # "_"
            /\ \A i \in 1..(Len(ds) - 1) : ~(ds[i] = "_" /\ ds[i + 1] = "_")
    IN  IF ~wellformed THEN [exc |-> "ValueError", val |-> 0]
        ELSE [exc |-> "none",
              val |-> IF signed /\ s[1] = "-" THEN 0 - DigitsValue(ds) ELSE DigitsValue(ds)]

\* str(n) for the small numbers the messages show
str(n) == <<CHOOSE c \in DOMAIN DigitValue : DigitValue[c] = n>>

\* seq[i] with Python's indices: from 0, negative ones from the end
PyIndex(seq, i) == IF i >= 0 THEN seq[i + 1] ELSE seq[Len(seq) + i + 1]

RECURSIVE Join(_, _)
\* sep.join(parts)
Join(parts, sep) ==
    IF parts = <<>> THEN <<>>
    ELSE IF Len(parts) = 1 THEN parts[1]
    ELSE parts[1] \o sep \o Join(Tail(parts), sep)

-----------------------------------------------------------------------------
(* main() of the collector: the prompts in order *)

Commuter == <<"Off-Campus (Commuter)">>

Options(p) ==
    CASE p = "living_situation" ->
            << <<"On-Campus Resident">>, Commuter >>
      [] p = "focus_time" ->
            << <<"Morning (I'm a 'morning person')">>, <<"Afternoon">>,
               <<"Evening / Late Night (I'm a 'night owl')">> >>
      [] p = "study_style" ->
            << <<"Short Bursts (e.g., Pomodoro - 25 min work, 5 min break)">>,
               <<"Standard Sessions (e.g., 50 min work, 10 min break)">>,
               <<"Deep Work Blocks (e.g., 90-120 min of focused work)">> >>
      [] p = "task_approach" ->
            << <<"Schedule my hardest, most-dreaded tasks first">>,
               <<"Warm-Up (Schedule 1-2 easy tasks first)">>,
               <<"Mix it Up (Alternate between hard and easy tasks)">> >>
      [] p = "meals" ->
            << <<"I go to the dining hall">>, <<"I cook my own meals">>,
               <<"I grab quick meals on the go">> >>

ChoicePrompts == {"living_situation", "focus_time", "study_style", "task_approach", "meals"}

TextPrompts ==
    {"home_base", "commute_time", "wake_time", "bed_time", "workday_start",
     "workday_end", "study_hours_goal", "exercise_freq", "exercise_duration", "downtime"}

\* the statements of main() that read input, in program order
Order ==
    <<"living_situation", "home_base", "commute_time", "commitments", "wake_time",
      "bed_time", "workday_start", "workday_end", "focus_time", "study_style",
      "task_approach", "study_spots", "study_hours_goal", "meals", "exercise_freq",
      "exercise_duration", "downtime", "summary">>

\* variant: the commute question asked of everyone
AlwaysCommuter(resp) == TRUE

\* `if responses['living_situation'] == "Off-Campus (Commuter)":`
IsCommuter(resp) == resp["living_situation"] = Commuter

\* variant: a resident is taken past the commitments as well
NextPromptSkipsTwo(p, resp) ==
    LET i == CHOOSE k \in 1..Len(Order) : Order[k] = p
    IN  IF Order[i + 1] = "commute_time" /\ ~IsCommuter(resp)
        THEN Order[i + 3]
        ELSE Order[i + 1]

\* the prompt main() reaches after prompt p was answered
NextPrompt(p, resp) ==
    LET i == CHOOSE k \in 1..Len(Order) : Order[k] = p
    IN  IF Order[i + 1] = "commute_time" /\ ~IsCommuter(resp)
        THEN Order[i + 2]
        ELSE Order[i + 1]

\* the last line print() writes on the way to prompt p: the last option of a
\* menu, the opening line of a list collection, a section header
PrintOnEntry(p, prev) ==
    IF p \in ChoicePrompts
    THEN <<"  ", str(Len(Options(p)))[1], ". ">> \o Options(p)[Len(Options(p))]
    ELSE CASE p = "commitments" ->
                 <<"\n", "Next, let's add your fixed commitments (classes, work, etc.).">>
           [] p = "wake_time" -> <<"\n", "--- Section 2: Daily Rhythm & Energy ---">>
           [] p = "study_spots" -> <<"\n", "Where are your favorite places to study?">>
           [] OTHER -> prev

\* responses[k] = v
SetKey(resp, k, v) ==
    [x \in DOMAIN resp \cup {k} |-> IF x = k THEN v ELSE resp[x]]

\* the answer is stored and main() runs on to its next prompt
Store(k, v) ==
    LET resp == SetKey(responses, k, v)
        next == NextPrompt(qpc, resp)
    IN  /\ responses' = resp
        /\ qpc' = next
        /\ printed' = PrintOnEntry(next, printed)
        /\ rejected' = 0

\* history of the inputs a prompt turned down
Reject == rejected' = IF rejected < MaxRejected THEN rejected + 1 ELSE rejected

-----------------------------------------------------------------------------
(* get_choice *)

\* variant: the lower end of the range off by one
ChoiceInRangeFromZero(n, count) == 0 <= n /\ n <= count

\* `1 <= choice_num <= len(options)`
ChoiceInRange(n, count) == 1 <= n /\ n <= count

\* the except clause of the retry loop
ChoiceHandlers == <<"ValueError">>

\* one pass of the loop of get_choice: an input, then the answer or a
\* corrective message and the same prompt again
GetChoice(In) ==
    /\ qpc \in ChoicePrompts
    /\ \E raw \in In[qpc] :
          LET r == int(get_input(raw))
              options == Options(qpc)
          IN  /\ last_raw' = raw
              /\ IF r.exc = "none" /\ ChoiceInRange(r.val, Len(options))
                 THEN /\ Store(qpc, PyIndex(options, r.val - 1))
                      /\ UNCHANGED quncaught
                 ELSE IF r.exc = "none"
                 THEN /\ printed' =
                            <<"Invalid choice. Please enter a number between 1 and ",
                              str(Len(options))[1], ".">>
                      /\ Reject
                      /\ UNCHANGED <<qpc, responses, quncaught>>
                 ELSE IF FirstHandler(ChoiceHandlers, r.exc) = 1
                 THEN /\ printed' = <<"Invalid input. Please enter a number.">>
                      /\ Reject
                      /\ UNCHANGED <<qpc, responses, quncaught>>
                 ELSE /\ quncaught' = r.exc
                      /\ qpc' = "uncaught"
                      /\ UNCHANGED <<responses, printed, rejected>>
    /\ UNCHANGED <<commitments, entry, items, disk, console, typed, wexc>>
    /\ UNCHANGED rvars

\* a free-text answer: get_input and the assignment in main()
GetText(In) ==
    /\ qpc \in TextPrompts
    /\ \E raw \in In[qpc] :
          /\ last_raw' = raw
          /\ Store(qpc, get_input(raw))
    /\ UNCHANGED <<commitments, entry, items, disk, console, quncaught, typed, wexc>>
    /\ UNCHANGED rvars

-----------------------------------------------------------------------------
(* get_list_items and get_fixed_commitments *)

Done == <<"d", "o", "n", "e">>

\* variant: the terminator compared without folding the case
IsDoneExact(s) == s = Done

\* `item.lower() == 'done'`
IsDone(s) == Lower(s) = Done

\* one pass of the loop of get_list_items
GetListItem(In) ==
    /\ qpc = "study_spots"
    /\ \E raw \in In[qpc] :
          LET item == get_input(raw)
          IN  /\ last_raw' = raw
              /\ typed' = [typed EXCEPT ![qpc] = Append(@, raw)]
              /\ IF IsDone(item)
                 THEN /\ Store(qpc, items)
                      /\ items' = <<>>
                 ELSE /\ Len(items) < MaxItems
                      /\ items' = Append(items, item)
                      /\ UNCHANGED <<qpc, responses, printed, rejected>>
    /\ UNCHANGED <<commitments, entry, disk, console, quncaught, wexc>>
    /\ UNCHANGED rvars

\* the follow-up questions of one commitment, in the order asked
CommitmentFields == <<"days", "start_time", "end_time", "location">>

\* variant: the days and the location in each other's place
commitment_strSwapped(name, days, start_time, end_time, location) ==
    name \o <<" (">> \o days \o <<") on ">> \o location \o <<" from ">> \o start_time
         \o <<" to ">> \o end_time

\* f"{name} ({location}) on {days} from {start_time} to {end_time}"
commitment_str(name, days, start_time, end_time, location) ==
    name \o <<" (">> \o location \o <<") on ">> \o days \o <<" from ">> \o start_time
         \o <<" to ">> \o end_time

\* the event-name question of get_fixed_commitments
GetCommitmentName(In) ==
    /\ qpc = "commitments"
    /\ entry = <<>>
    /\ \E raw \in In[qpc] :
          LET name == get_input(raw)
          IN  /\ last_raw' = raw
              /\ typed' = [typed EXCEPT ![qpc] = Append(@, raw)]
              /\ IF IsDone(name)
                 THEN /\ Store(qpc, commitments)
                      /\ commitments' = <<>>
                      /\ UNCHANGED entry
                 ELSE /\ Len(commitments) < MaxCommitments
                      /\ entry' = <<name>>
                      /\ UNCHANGED <<qpc, responses, commitments, printed, rejected>>
    /\ UNCHANGED <<items, disk, console, quncaught, wexc>>
    /\ UNCHANGED rvars

\* variant: the terminator looked for in the follow-up answers as well
GetCommitmentFieldStops(In) ==
    /\ qpc = "commitments"
    /\ entry # <<>>
    /\ \E raw \in In[CommitmentFields[Len(entry)]] :
          LET e == Append(entry, get_input(raw))
          IN  /\ last_raw' = raw
              /\ typed' = [typed EXCEPT !["fields"] = Append(@, raw)]
              /\ IF IsDone(get_input(raw))
                 THEN /\ Store(qpc, commitments)
                      /\ commitments' = <<>>
                      /\ entry' = <<>>
                 ELSE /\ UNCHANGED <<qpc, responses, printed, rejected>>
                      /\ IF Len(e) < 5
                         THEN /\ entry' = e
                              /\ UNCHANGED commitments
                         ELSE /\ commitments' =
                                    Append(commitments,
                                           commitment_str(e[1], e[2], e[3], e[4], e[5]))
                              /\ entry' = <<>>
    /\ UNCHANGED <<items, disk, console, quncaught, wexc>>
    /\ UNCHANGED rvars

\* one of the four follow-up questions; the last one completes the entry
GetCommitmentField(In) ==
    /\ qpc = "commitments"
    /\ entry # <<>>
    /\ \E raw \in In[CommitmentFields[Len(entry)]] :
          LET e == Append(entry, get_input(raw))
          IN  /\ last_raw' = raw
              /\ typed' = [typed EXCEPT !["fields"] = Append(@, raw)]
              /\ IF Len(e) < 5
                 THEN /\ entry' = e
                      /\ UNCHANGED commitments
                 ELSE /\ commitments' =
                            Append(commitments, commitment_str(e[1], e[2], e[3], e[4], e[5]))
                      /\ entry' = <<>>
    /\ UNCHANGED <<qpc, responses, items, printed, disk, console, quncaught, rejected,
                   wexc>>
    /\ UNCHANGED rvars

-----------------------------------------------------------------------------
(* print_summary *)

Banner == <<"======================================================================">>

\* variant: the downtime answer tested as typed, without lower()
BurnoutRiskCaseSensitive(downtime) ==
    \/ Contains(downtime, <<"n", "o">>)
    \/ Contains(downtime, <<"f", "i", "l", "l">>)
    \/ Contains(downtime, <<"j", "u", "s", "t", " ", "f", "i", "l", "l">>)

\* the condition of the final advisor note
BurnoutRisk(downtime) ==
    \/ Contains(Lower(downtime), <<"n", "o">>)
    \/ Contains(Lower(downtime), <<"f", "i", "l", "l">>)
    \/ Contains(Lower(downtime), <<"j", "u", "s", "t", " ", "f", "i", "l", "l">>)

\* `if 'commute_time' in responses:`
HasCommute(resp) == "commute_time" \in DOMAIN resp

CommuteLine(resp) ==
    IF HasCommute(resp)
    THEN << <<"* Average Commute: ">>
            \o (IF "commute_time" \in DOMAIN resp THEN resp["commute_time"] ELSE <<"KeyError">>)
            \o <<" (one-way)">> >>
    ELSE <<>>

CommitmentLines(resp) ==
    IF Len(resp["commitments"]) > 0
    THEN [i \in 1..Len(resp["commitments"]) |-> <<"  - ">> \o resp["commitments"][i]]
    ELSE << <<"  - No fixed commitments reported.">> >>

ClosingNote(resp) ==
    IF BurnoutRisk(resp["downtime"])
    THEN << <<"\n", "  *** KEY ADVISOR NOTE: BURNOUT RISK ***">>,
            <<"  Student reported NOT scheduling dedicated downtime">>,
            <<"  (Response: '">> \o resp["downtime"] \o <<"').">>,
            <<"  This is a primary risk factor for burnout and a key">>,
            <<"  area for intervention and discussion.">> >>
    ELSE << <<"\n", "  > Advisor Note: The student's meal, exercise, and downtime">>,
            <<"    habits are foundational to well-being. Their stated">>,
            <<"    downtime preference is a good starting point for">>,
            <<"    building a sustainable work-life balance.">> >>

\* report_lines as print_summary builds it
report_lines(resp) ==
    << Banner,
       <<" STUDENT WELLNESS & HABITS PROFILE">>,
       Banner,
       <<"This report summarizes the student's self-reported daily habits,">>,
       <<"commitments, and preferences to inform support strategies.", "\n">>,
       <<"--- 1. Logistics & Commitments ---">>,
       <<"* Living Situation: ">> \o resp["living_situation"],
       <<"* Home Base / Parking: ">> \o resp["home_base"] >>
    \o CommuteLine(resp)
    \o << <<"\n", "* Fixed Commitments:">> >>
    \o CommitmentLines(resp)
    \o << <<"\n", "--- 2. Daily Rhythm & Energy ---">>,
          <<"* Ideal Sleep Schedule: Wake up at ">> \o resp["wake_time"]
              \o <<" and go to sleep at ">> \o resp["bed_time"],
          <<"* Preferred 'Workday': ">> \o resp["workday_start"] \o <<" to ">>
              \o resp["workday_end"],
          <<"* Peak Focus Time: ">> \o resp["focus_time"],
          <<"\n", "  > Advisor Note: Compare ideal sleep with actual commitments.">>,
          <<"    A '">> \o resp["focus_time"] \o <<"' preference may conflict with">>,
          <<"    an early class schedule, creating a friction point.">>,
          <<"\n", "--- 3. Study & Work Preferences ---">>,
          <<"* Preferred Study Style: ">> \o resp["study_style"],
          <<"* Task Management: ">> \o resp["task_approach"],
          <<"* Weekly Study Goal: ">> \o resp["study_hours_goal"] \o <<" hours">>,
          <<"* Favorite Study Spots: ">>
              \o (IF Len(resp["study_spots"]) > 0
                  THEN Join(resp["study_spots"], <<", ">>)
                  ELSE <<"None reported">>),
          <<"\n", "  > Advisor Note: The goal of ">> \o resp["study_hours_goal"]
              \o <<" hours/week">>,
          <<"    is a key self-reported pressure point. The student's task">>,
          <<"    approach ('">> \o resp["task_approach"] \o <<"') is a good indicator">>,
          <<"    of their coping mechanism for difficult work.">>,
          <<"\n", "--- 4. Personal Habits & Well-being ---">>,
          <<"* Meal Habits: ">> \o resp["meals"],
          <<"* Exercise Frequency: ">> \o resp["exercise_freq"],
          <<"* Exercise Duration: ">> \o resp["exercise_duration"],
          <<"* Scheduled Downtime: ">> \o resp["downtime"] >>
    \o ClosingNote(resp)
    \o << <<"\n">> \o Banner >>

\* final_report = "\n".join(report_lines)
final_report(resp) == Join(report_lines(resp), <<"\n">>)

\* opening profile.txt for writing and writing the report: done, refused at
\* open (the file is left as it was), or failed in the write (the file was
\* already truncated)
WriteOutcomes ==
    {[exc |-> "none", at |-> "none"],
     [exc |-> "PermissionError", at |-> "open"],
     [exc |-> "OSError", at |-> "write"]}

\* variant: a clause for a missing file only
WriteHandlersNarrow == <<"FileNotFoundError">>

\* `except IOError`: IOError is OSError
WriteHandlers == <<"OSError">>

PrintSummary ==
    /\ qpc = "summary"
    /\ \E w \in WriteOutcomes :
          LET text == final_report(responses)
          IN  /\ wexc' = w.exc
              /\ disk' = CASE w.at = "none"  -> [exists |-> TRUE, content |-> text]
                           [] w.at = "open"  -> disk
                           [] w.at = "write" -> [exists |-> TRUE, content |-> <<>>]
              /\ IF w.exc = "none"
                 THEN /\ console' = console \o
                           << text,
                              <<"\n", "... This profile has been successfully saved to 'profile.txt'.">> >>
                      /\ qpc' = "finished"
                      /\ UNCHANGED quncaught
                 ELSE IF FirstHandler(WriteHandlers, w.exc) = 1
                 THEN /\ console' = console \o
                           << <<"\n", "--- ERROR ---">>,
                              <<"Could not save profile to 'profile.txt'. Error: ", w.exc>>,
                              <<"Here is your profile output instead:", "\n">>,
                              text >>
                      /\ qpc' = "finished"
                      /\ UNCHANGED quncaught
                 ELSE /\ quncaught' = w.exc
                      /\ qpc' = "uncaught"
                      /\ UNCHANGED console
    /\ UNCHANGED <<responses, commitments, entry, items, printed, last_raw, rejected,
                   typed>>
    /\ UNCHANGED rvars

-----------------------------------------------------------------------------
(* Runs of the collector *)

\* the pipeline is not running
RoutineIdle ==
    /\ pc = "idle"
    /\ profile_file = [exc |-> "FileNotFoundError", content |-> <<>>]
    /\ student_profile = PyNone
    /\ suggestion_text = PyNone
    /\ json_string = PyNone
    /\ json_events = PyNone
    /\ out = <<>>
    /\ clients = <<>>
    /\ requests = <<>>
    /\ uncaught = "none"
    /\ faults = <<>>
    /\ served = <<>>

\* main() up to its first input: the empty dict, the first menu printed
QuizInit ==
    /\ qpc = Order[1]
    /\ responses = <<>>
    /\ commitments = <<>>
    /\ entry = <<>>
    /\ items = <<>>
    /\ printed = PrintOnEntry(Order[1], <<"--- Section 1: Logistics & Commitments ---">>)
    /\ disk = [exists |-> FALSE, content |-> <<>>]
    /\ console = <<>>
    /\ quncaught = "none"
    /\ last_raw = <<>>
    /\ rejected = 0
    /\ typed = [commitments |-> <<>>, fields |-> <<>>, study_spots |-> <<>>]
    /\ wexc = "none"

\* the collector is not running
QuizIdle ==
    /\ qpc = "idle"
    /\ responses = <<>>
    /\ commitments = <<>>
    /\ entry = <<>>
    /\ items = <<>>
    /\ printed = <<>>
    /\ disk = [exists |-> FALSE, content |-> <<>>]
    /\ console = <<>>
    /\ quncaught = "none"
    /\ last_raw = <<>>
    /\ rejected = 0
    /\ typed = [commitments |-> <<>>, fields |-> <<>>, study_spots |-> <<>>]
    /\ wexc = "none"

QuizNext(In) ==
    \/ GetChoice(In)
    \/ GetText(In)
    \/ GetCommitmentName(In)
    \/ GetCommitmentField(In)
    \/ GetListItem(In)
    \/ PrintSummary

\* every call of input(): the prompts of main() and of get_fixed_commitments
Prompts == ChoicePrompts \cup TextPrompts \cup {"commitments", "study_spots"}
               \cup {CommitmentFields[i] : i \in 1..Len(CommitmentFields)}

\* a whole run: a few answers at every prompt
QuizInputs(p) ==
    CASE p \in ChoicePrompts ->
            {<<"1">>, <<"2">>, <<" ", "3">>, <<"0">>, <<"x">>}
      [] p = "commitments" -> {<<"d", "o", "n", "e">>, <<"C", "h", "e", "m">>}
      [] p = "days" -> {<<"M", "W", "F">>}
      [] p = "start_time" -> {<<"9">>}
      [] p = "end_time" -> {<<"1", "0">>}
      [] p = "location" -> {<<"H", "a", "l", "l">>}
      [] p = "study_spots" -> {<<"D", "o", "n", "e">>, <<"L", "i", "b">>}
      [] p = "downtime" -> {<<"N", "o">>, <<"Y", "e", "s">>}
      [] p = "home_base" -> {<<" ", "L", "o", "t", " ", "4", " ">>}
      [] p = "commute_time" -> {<<"3", "0", " ", "m", "i", "n">>}
      [] OTHER -> {<<"7">>}

NextQuiz == QuizNext([p \in Prompts |-> QuizInputs(p)])

InitQuiz == RoutineIdle /\ QuizInit

SpecQuiz == InitQuiz /\ [][NextQuiz]_vars

\* a whole run in which the two list collections see the terminator in
\* several spellings, near misses, and "done" as a follow-up answer
CollectInputs(p) ==
    CASE p \in ChoicePrompts -> {<<"2">>, <<"x">>}
      [] p = "commitments" ->
            {<<"d", "o", "n", "e">>, <<"D", "O", "N", "E">>, <<" ", "D", "o", "n", "e", " ">>,
             <<"C", "h", "e", "m">>, <<"d", "o", "n", "e", "r">>}
      [] p = "days" -> {<<"M", "W", "F">>}
      [] p = "start_time" -> {<<"9">>}
      [] p = "end_time" -> {<<"1", "0">>}
      [] p = "location" -> {<<"H", "a", "l", "l">>}
      [] p = "study_spots" ->
            {<<"d", "o", "n", "e">>, <<"D", "O", "N", "E">>, <<"d", "O", "n", "E">>,
             <<" ", "d", "o", "n", "e", "\t">>, <<"L", "i", "b">>, <<" ", "D", "o", "r", "m">>,
             <<"d", "o", "n">>}
      [] p = "downtime" -> {<<"Y", "e", "s">>}
      [] OTHER -> {<<"7">>}

NextCollect == QuizNext([p \in Prompts |-> CollectInputs(p)])

InitCollect == RoutineIdle /\ QuizInit

SpecCollect == InitCollect /\ [][NextCollect]_vars

\* the answers of one complete run up to the last question
SampleProfile ==
    [living_situation |-> Commuter,
     home_base |-> <<"L", "o", "t", " ", "4">>,
     commute_time |-> <<"3", "0", " ", "m", "i", "n">>,
     commitments |-> << commitment_str(<<"C", "h", "e", "m">>, <<"M", "W", "F">>, <<"9">>,
                                       <<"1", "0">>, <<"H", "a", "l", "l">>) >>,
     wake_time |-> <<"7">>,
     bed_time |-> <<"7">>,
     workday_start |-> <<"7">>,
     workday_end |-> <<"7">>,
     focus_time |-> Options("focus_time")[2],
     study_style |-> Options("study_style")[1],
     task_approach |-> Options("task_approach")[3],
     study_spots |-> << <<"L", "i", "b">>, <<"D", "o", "r", "m">> >>,
     study_hours_goal |-> <<"7">>,
     meals |-> Options("meals")[1],
     exercise_freq |-> <<"7">>,
     exercise_duration |-> <<"7">>]

\* the responses dict of the sample run when main() stands at prompt p
AnsweredBefore(p) ==
    LET i == CHOOSE k \in 1..Len(Order) : Order[k] = p
        keys == {Order[k] : k \in 1..(i - 1)}
    IN  [x \in keys |-> SampleProfile[x]]

\* what the sample run typed at the two list prompts
SampleTyped ==
    [commitments |-> << <<"C", "h", "e", "m">>, <<"d", "o", "n", "e">> >>,
     fields |-> << <<"M", "W", "F">>, <<"9">>, <<"1", "0">>, <<"H", "a", "l", "l">> >>,
     study_spots |-> << <<"L", "i", "b">>, <<"D", "o", "r", "m">>, <<"D", "o", "n", "e">> >>]

\* the sample run standing at prompt p
StandingAt(p) ==
    /\ RoutineIdle
    /\ qpc = p
    /\ responses = AnsweredBefore(p)
    /\ commitments = <<>>
    /\ entry = <<>>
    /\ items = <<>>
    /\ printed = PrintOnEntry(p, <<>>)
    /\ disk = [exists |-> FALSE, content |-> <<>>]
    /\ console = <<>>
    /\ quncaught = "none"
    /\ last_raw = <<"7">>
    /\ rejected = 0
    /\ typed = [k \in DOMAIN SampleTyped |->
                    IF (IF k = "fields" THEN "commitments" ELSE k) \in DOMAIN AnsweredBefore(p)
                    THEN SampleTyped[k]
                    ELSE <<>>]
    /\ wexc = "none"

ChoiceChars == {"0", "1", "2", "3", "+", "-", "x", " "}

\* every short keyboard input at a menu
ChoiceInputs(p) == SeqsUpTo(ChoiceChars, MaxChoiceLen)

\* the menus after which main() asks a free-text question: the first one
\* (two options, nothing answered yet) and two later ones (three options)
InitChoice == \E p \in {"living_situation", "task_approach", "meals"} : StandingAt(p)

NextChoice == GetChoice([p \in Prompts |-> ChoiceInputs(p)])

\* get_choice at each menu of the sample run
SpecChoice == InitChoice /\ [][NextChoice]_vars

DowntimeChars == {"n", "N", "o", "f", "i", "l", "L", "y"}

\* every short answer to the downtime question
DowntimeInputs(p) == SeqsUpTo(DowntimeChars, MaxDowntimeLen)

InitSummary == StandingAt("downtime")

NextSummary ==
    \/ GetText([p \in Prompts |-> DowntimeInputs(p)])
    \/ PrintSummary

\* the last question and print_summary, for every short downtime answer
SpecSummary == InitSummary /\ [][NextSummary]_vars

\* answers at the questions of get_fixed_commitments, the terminator among
\* them at every one; one answer at each later prompt
CommitInputs(p) ==
    CASE p \in ChoicePrompts -> {<<"2">>}
      [] p = "commitments" ->
            {<<"d", "o", "n", "e">>, <<" ", "D", "O", "N", "E">>,
             <<"C", "h", "e", "m">>, <<"G", "y", "m", " ">>}
      [] p = "days" -> {<<"M", "W", "F">>, <<"d", "o", "n", "e">>}
      [] p = "start_time" -> {<<"9">>, <<"D", "o", "n", "e">>}
      [] p = "end_time" -> {<<"1", "0">>}
      [] p = "location" -> {<<"H", "a", "l", "l">>, <<"D", "O", "N", "E">>}
      [] p = "study_spots" -> {<<"d", "o", "n", "e">>}
      [] p = "downtime" -> {<<"Y", "e", "s">>}
      [] OTHER -> {<<"7">>}

InitCommit == StandingAt("commitments")

NextCommit == QuizNext([p \in Prompts |-> CommitInputs(p)])

\* the sample run from get_fixed_commitments to the end of print_summary
SpecCommit == InitCommit /\ [][NextCommit]_vars

\* a run of the pipeline, from each state it may find the report file in
RoutineInit ==
    /\ QuizIdle
    /\ pc = "A_read"
    /\ profile_file \in ProfileFiles
    /\ student_profile = PyNone
    /\ suggestion_text = PyNone
    /\ json_string = PyNone
    /\ json_events = PyNone
    /\ out = <<>>
    /\ clients = <<>>
    /\ requests = <<>>
    /\ uncaught = "none"
    /\ faults = <<>>
    /\ served = <<>>

RoutineNext ==
    \/ A_ReadProfile
    \/ A_InitClient
    \/ A_CallApi
    \/ Main_AfterA
    \/ B_InitClient
    \/ B_CallApi
    \/ Main_AfterB

SpecRoutine == RoutineInit /\ [][RoutineNext]_vars

-----------------------------------------------------------------------------
(* Properties of the suggestion pipeline, checked under SpecRoutine *)

Range(f) == {f[i] : i \in DOMAIN f}

\* stage A handed advice text to the entry point
HasAdvice(v) == v.t = "str" /\ Len(v.s) > 0

StageBStarted ==
    \/ pc \in {"B_client", "B_call", "main_after_B"}
    \/ "B" \in Range(clients)
    \/ "B" \in Range(requests)

C1_Inv ==
    /\ StageBStarted =>
          /\ HasAdvice(suggestion_text)
          /\ requests # <<>> /\ requests[1] = "A"
          /\ served # <<>> /\ served[1] = suggestion_text
    /\ (pc \in {"main_after_A", "done"} /\ ~HasAdvice(suggestion_text)) =>
          ~StageBStarted

C1_Step ==
    (pc = "main_after_A" /\ ~HasAdvice(suggestion_text)) =>
        /\ pc' = "done"
        /\ clients' = clients
        /\ requests' = requests

\* C1: stage B is started only after stage A has returned advice text; when
\* stage A returned None or an empty text, no stage B client is constructed,
\* no second request is issued, and the next step ends the run.
C1_StageBOnlyAfterAdvice == []C1_Inv /\ [][C1_Step]_vars

\* stage A produced the empty text and the run ended after one request
C1_Witness ==
    /\ pc = "done"
    /\ served = <<PyStr(<<>>)>>
    /\ requests = <<"A">>
    /\ clients = <<"A">>

IsEventsMapping(v) ==
    /\ v.t = "dict"
    /\ \E i \in 1..Len(v.members) :
          /\ v.members[i][1] = <<"events">>
          /\ v.members[i][2].t = "list"

\* C2: whenever stage B returns a value other than None, the value is a
\* mapping containing the key "events" bound to a sequence.
C2_EventsMapping ==
    (pc = "main_after_B" /\ json_events # PyNone) => IsEventsMapping(json_events)

ErrorHeads ==
    {"Error: The file '", "Error reading file: ", "Error initializing Groq client: ",
     "Error during API call: ", "Error: LLM did not return valid JSON."}

C3_Inv ==
    /\ uncaught = "none"
    /\ pc # "uncaught"
    /\ faults # <<>> =>
          LET f == faults[Len(faults)]
          IN  /\ pc \in {"main_after_A", "main_after_B", "done"}
              /\ f[1] = "A" => suggestion_text = PyNone
              /\ f[1] = "B" => json_events = PyNone
              /\ \E i \in 1..Len(out) : out[i][1] \in ErrorHeads

C3_Step ==
    /\ faults' # faults =>
          /\ Len(out') > Len(out)
          /\ out'[Len(out) + 1][1] \in ErrorHeads
          /\ pc' \in {"main_after_A", "main_after_B"}
    /\ (faults # <<>> /\ pc \in {"main_after_A", "main_after_B"}) => pc' = "done"

\* C3: whatever faults occur in a run (report file missing or unreadable,
\* client construction fault, service fault, invalid JSON), the failing
\* stage prints a diagnostic and returns None, no exception leaves a stage
\* or the entry point, and the run then ends.
C3_NoFaultEscapes == []C3_Inv /\ [][C3_Step]_vars

\* stage A succeeded, the stage B request hit a service fault, the run ended
C3_Witness ==
    /\ pc = "done"
    /\ faults = << <<"B", "RateLimitError">> >>
    /\ requests = <<"A", "B">>

\* C4: when the text returned by the stage B request is not valid JSON, the
\* stage prints that text unmodified after the diagnostic, returns None and
\* raises nothing.
C4_InvalidJsonGivesRawText ==
    (/\ pc = "main_after_B"
     /\ Len(served) = 2
     /\ served[Len(served)].t = "str"
     /\ json_loads(served[Len(served)]).exc = "JSONDecodeError")
    => /\ json_events = PyNone
       /\ uncaught = "none"
       /\ out[Len(out) - 1] = <<"Error: LLM did not return valid JSON.">>
       /\ out[Len(out)] = <<"Raw output:", " ">> \o served[Len(served)].s

\* the service closed an object after a colon: not JSON
C4_Witness ==
    /\ pc = "main_after_B"
    /\ Len(served) = 2
    /\ served[Len(served)] =
          PyStr(<<"{", "\"events\"", ":", "[", "{", "\"title\"", ":", "}", "]", "}">>)
    /\ json_events = PyNone

\* C5: stage A reads the report file before anything else; when the file is
\* absent it prints the not-found message that asks for the quiz to be run,
\* when the read fails otherwise it prints the cause; either way it returns
\* None and no client is constructed and no request issued in the run.
C5_ReadFaultStopsRun ==
    /\ pc = "A_read" => (clients = <<>> /\ requests = <<>> /\ out = <<>>)
    /\ (pc # "A_read" /\ profile_file.exc # "none") =>
          /\ pc \in {"main_after_A", "done"}
          /\ suggestion_text = PyNone
          /\ clients = <<>>
          /\ requests = <<>>
          /\ out = IF profile_file.exc = "FileNotFoundError"
                   THEN << <<"Error: The file '", "profile.txt", "' was not found.">>,
                           <<"Please run the quiz script first to generate the profile.">> >>
                   ELSE << <<"Error reading file: ", profile_file.exc>> >>

\* the file exists but cannot be opened; the run ended without a client
C5_Witness ==
    /\ pc = "done"
    /\ profile_file.exc = "PermissionError"
    /\ clients = <<>>
    /\ Len(out) = 1

-----------------------------------------------------------------------------
(* Properties of the collector and the renderer *)

\* print_summary has run
SummaryDone == qpc = "finished" \/ (qpc = "uncaught" /\ "downtime" \in DOMAIN responses)

\* the report among the things print_summary printed
PrintedReport == console[CHOOSE i \in 1..Len(console) : console[i][1] = Banner[1]]

\* C6: whether the write of profile.txt succeeds or fails with an I/O fault,
\* print_summary prints the complete report text once and returns normally;
\* after a failure an error message with the cause precedes the report, and
\* after a success the file holds the very text that was printed.
C6_ReportSurfaced ==
    SummaryDone =>
        LET text == final_report(responses)
            at == {i \in 1..Len(console) : console[i] = text}
        IN  /\ qpc = "finished"
            /\ quncaught = "none"
            /\ Cardinality(at) = 1
            /\ wexc = "none" => disk = [exists |-> TRUE, content |-> text]
            /\ wexc # "none" =>
                  \E i \in 1..Len(console) :
                      /\ console[i] =
                            <<"Could not save profile to 'profile.txt'. Error: ", wexc>>
                      /\ \A j \in at : i < j

\* the write failed after the file was opened; the report was printed
C6_Witness ==
    /\ qpc = "finished"
    /\ wexc = "OSError"
    /\ disk = [exists |-> TRUE, content |-> <<>>]
    /\ console[Len(console)] = final_report(responses)

C7_Step ==
    qpc \in ChoicePrompts =>
        LET n == int(last_raw')
            count == Len(Options(qpc))
        IN  IF n.exc = "none" /\ n.val \in 1..count
            THEN /\ qpc' \notin {qpc, "uncaught"}
                 /\ DOMAIN responses' = DOMAIN responses \cup {qpc}
                 /\ responses'[qpc] = Options(qpc)[n.val]
                 /\ \A k \in DOMAIN responses \ {qpc} : responses'[k] = responses[k]
            ELSE /\ qpc' = qpc
                 /\ responses' = responses
                 /\ quncaught' = "none"
                 /\ rejected' = IF rejected < MaxRejected THEN rejected + 1 ELSE rejected
                 /\ printed' =
                       IF n.exc = "none"
                       THEN <<"Invalid choice. Please enter a number between 1 and ",
                              str(count)[1], ".">>
                       ELSE <<"Invalid input. Please enter a number.">>

\* C7: at a menu of N options every input that is not a number, or is a
\* number outside 1..N, gets a corrective message and the same prompt again,
\* however many inputs were turned down before, and changes no recorded
\* answer; an input in 1..N returns that option's text.
C7_ChoiceRejectsAndRetries == [][C7_Step]_vars

\* at the last menu, after the earlier answers: turned down repeatedly
C7_Witness ==
    /\ qpc = "meals"
    /\ rejected = MaxRejected
    /\ last_raw = <<"0">>
    /\ responses = AnsweredBefore("meals")

\* the terminator token in any letter case
DoneAnyCase(s) ==
    /\ Len(s) = 4
    /\ s[1] \in {"d", "D"} /\ s[2] \in {"o", "O"} /\ s[3] \in {"n", "N"} /\ s[4] \in {"e", "E"}

\* C8: in get_list_items and at the name prompt of get_fixed_commitments,
\* "done" in any letter case ends the collection and is never part of the
\* result; the result holds one element for each entry given before the
\* first terminator, in entry order (the entry itself for a list item, the
\* line built from that name for a commitment), and is empty when the
\* terminator came first.
C8_DoneTerminates ==
    \A k \in {"commitments", "study_spots"} :
        LET given == [i \in 1..Len(typed[k]) |-> get_input(typed[k][i])]
            finished == k \in DOMAIN responses
        IN  /\ \A i \in 1..Len(given) :
                  DoneAnyCase(given[i]) <=> (i = Len(given) /\ finished)
            /\ finished =>
                  /\ Len(given) >= 1
                  /\ Len(responses[k]) = Len(given) - 1
                  /\ \A i \in 1..(Len(given) - 1) :
                        /\ ~DoneAnyCase(responses[k][i])
                        /\ IF k = "study_spots"
                           THEN responses[k][i] = given[i]
                           ELSE /\ Len(responses[k][i]) > Len(given[i])
                                /\ SubSeq(responses[k][i], 1, Len(given[i]) + 1)
                                      = given[i] \o <<" (">>

\* both lists ended by an upper or mixed case terminator: the commitments
\* at once, the study spots after two entries
C8_Witness ==
    /\ "study_spots" \in DOMAIN responses
    /\ typed["commitments"] = << <<"D", "O", "N", "E">> >>
    /\ responses["commitments"] = <<>>
    /\ Len(typed["study_spots"]) = 3
    /\ typed["study_spots"][3] = <<"d", "O", "n", "E">>
    /\ responses["study_spots"] = << <<"L", "i", "b">>, <<"D", "o", "r", "m">> >>

\* the text has a line that starts with the commute label
HasCommuteLine(text) ==
    \E i \in 1..Len(text) :
        /\ text[i] = "* Average Commute: "
        /\ i = 1 \/ text[i - 1] = "\n"

\* C9: commute_time is in the collected profile exactly when
\* living_situation is the commuter option, and the report has the
\* '* Average Commute:' line exactly for a commuter.
C9_CommuteIffCommuter ==
    /\ "commute_time" \in DOMAIN responses => responses["living_situation"] = Commuter
    /\ qpc \in {"summary", "finished"} =>
          ("commute_time" \in DOMAIN responses <=> responses["living_situation"] = Commuter)
    /\ qpc = "finished" =>
          (HasCommuteLine(PrintedReport) <=> responses["living_situation"] = Commuter)

\* a commuter's report, with the commute line carrying the answer
C9_Witness ==
    /\ qpc = "finished"
    /\ responses["living_situation"] = Commuter
    /\ Contains(PrintedReport,
                <<"\n", "* Average Commute: ">> \o responses["commute_time"]
                    \o <<" (one-way)", "\n">>)

HasNo(d) ==
    \E i \in 1..(Len(d) - 1) : d[i] \in {"n", "N"} /\ d[i + 1] \in {"o", "O"}

HasFill(d) ==
    \E i \in 1..(Len(d) - 3) :
        /\ d[i] \in {"f", "F"} /\ d[i + 1] \in {"i", "I"}
        /\ d[i + 2] \in {"l", "L"} /\ d[i + 3] \in {"l", "L"}

BurnoutBlock(d) ==
    <<"\n", "\n", "  *** KEY ADVISOR NOTE: BURNOUT RISK ***", "\n",
      "  Student reported NOT scheduling dedicated downtime", "\n",
      "  (Response: '">> \o d \o <<"').", "\n",
      "  This is a primary risk factor for burnout and a key", "\n",
      "  area for intervention and discussion.", "\n", "\n">> \o Banner

NeutralBlock ==
    <<"\n", "\n", "  > Advisor Note: The student's meal, exercise, and downtime", "\n",
      "    habits are foundational to well-being. Their stated", "\n",
      "    downtime preference is a good starting point for", "\n",
      "    building a sustainable work-life balance.", "\n", "\n">> \o Banner

EndsWith(text, tail) ==
    /\ Len(text) >= Len(tail)
    /\ SubSeq(text, Len(text) - Len(tail) + 1, Len(text)) = tail

\* C10: the report closes with the burnout-risk block, quoting the downtime
\* answer as given, exactly when the answer holds "no" or "fill" in any
\* letter case, and with the neutral note otherwise; never with both.
C10_BurnoutSplit ==
    qpc = "finished" =>
        LET d == responses["downtime"]
            risk == HasNo(d) \/ HasFill(d)
        IN  /\ EndsWith(PrintedReport, BurnoutBlock(d)) <=> risk
            /\ EndsWith(PrintedReport, NeutralBlock) <=> ~risk
            /\ Contains(PrintedReport, <<"  *** KEY ADVISOR NOTE: BURNOUT RISK ***">>) <=> risk
            /\ Contains(PrintedReport,
                        <<"  > Advisor Note: The student's meal, exercise, and downtime">>)
                  <=> ~risk

\* "fill" in mixed case, without "no": the burnout block closes the report
C10_Witness ==
    /\ qpc = "finished"
    /\ responses["downtime"] = <<"f", "i", "L", "l">>
    /\ EndsWith(PrintedReport, BurnoutBlock(<<"f", "i", "L", "l">>))

\* the profile fields main() always sets
Mandatory ==
    {"living_situation", "home_base", "commitments", "wake_time", "bed_time",
     "workday_start", "workday_end", "focus_time", "study_style", "task_approach",
     "study_spots", "study_hours_goal", "meals", "exercise_freq", "exercise_duration",
     "downtime"}

\* main() has reached its call of print_summary
Rendering == qpc = "summary" \/ SummaryDone

C11_Inv == Rendering => Mandatory \subseteq DOMAIN responses

C11_Step == Rendering => responses' = responses

\* C11: print_summary is called only when every mandatory field of the
\* profile has been set by main(), and from that call on the profile is
\* not changed.
C11_RenderAfterComplete == []C11_Inv /\ [][C11_Step]_vars

\* a resident's profile rendered: the mandatory fields and nothing else
C11_Witness ==
    /\ qpc = "finished"
    /\ DOMAIN responses = Mandatory
    /\ Len(console) > 0

\* where a heading stands in the text
Position(text, heading) == CHOOSE i \in 1..Len(text) : text[i] = heading

\* what the report holds between the commitments heading and the next one
CommitmentSection(text) ==
    SubSeq(text, Position(text, "* Fixed Commitments:") + 1,
                 Position(text, "--- 2. Daily Rhythm & Energy ---") - 1)

\* the five answers given for the i-th commitment, as get_input returned
\* them: name, days, start, end, location
AnswersOf(i) ==
    <<get_input(typed["commitments"][i]),
      get_input(typed["fields"][4 * i - 3]),
      get_input(typed["fields"][4 * i - 2]),
      get_input(typed["fields"][4 * i - 1]),
      get_input(typed["fields"][4 * i])>>

ExpectedLine(i) ==
    LET a == AnswersOf(i)
    IN  <<"  - ">> \o a[1] \o <<" (">> \o a[5] \o <<") on ">> \o a[2]
            \o <<" from ">> \o a[3] \o <<" to ">> \o a[4]

RECURSIVE ExpectedLines(_, _)
ExpectedLines(i, n) ==
    IF i > n THEN <<>> ELSE ExpectedLine(i) \o <<"\n">> \o ExpectedLines(i + 1, n)

\* C12: the commitments section of the report is the one line
\* '  - No fixed commitments reported.' exactly when the collected list is
\* empty; otherwise it is one bulleted line per collected commitment, in
\* entry order, each '<name> (<location>) on <days> from <start> to <end>'
\* with that commitment's five answers.
C12_CommitmentSection ==
    qpc = "finished" =>
        LET n == Len(responses["commitments"])
            section == CommitmentSection(PrintedReport)
            placeholder == <<"\n", "  - No fixed commitments reported.", "\n", "\n">>
        IN  /\ n = Len(typed["commitments"]) - 1
            /\ section = placeholder <=> n = 0
            /\ n > 0 => section = <<"\n">> \o ExpectedLines(1, n) \o <<"\n">>

\* two commitments with different answers, each on its line, in entry order
C12_Witness ==
    /\ qpc = "finished"
    /\ typed["commitments"] =
          << <<"G", "y", "m", " ">>, <<"C", "h", "e", "m">>, <<" ", "D", "O", "N", "E">> >>
    /\ typed["fields"] =
          << <<"d", "o", "n", "e">>, <<"9">>, <<"1", "0">>, <<"H", "a", "l", "l">>,
             <<"M", "W", "F">>, <<"D", "o", "n", "e">>, <<"1", "0">>, <<"D", "O", "N", "E">> >>
    /\ Contains(PrintedReport,
                <<"\n", "  - ", "G", "y", "m", " (", "H", "a", "l", "l", ") on ",
                  "d", "o", "n", "e", " from ", "9", " to ", "1", "0", "\n",
                  "  - ", "C", "h", "e", "m", " (", "D", "O", "N", "E", ") on ",
                  "M", "W", "F", " from ", "D", "o", "n", "e", " to ", "1", "0", "\n">>)

\* a request of the run ended with a fault of the service
ServiceFaulted == \E i \in 1..Len(faults) : faults[i][2] \in ServiceFaults

C13_Inv ==
    /\ requests \in {<<>>, <<"A">>, <<"A", "B">>}
    /\ ServiceFaulted => requests[Len(requests)] = faults[Len(faults)][1]

C13_Step == ServiceFaulted => requests' = requests

\* C13: in one run of the pipeline stage A issues at most one request and
\* stage B at most one, the request of stage A before that of stage B, and
\* once a request has ended with a service fault no request follows.
C13_NoRetry == []C13_Inv /\ [][C13_Step]_vars

\* the stage A request failed: it stayed the only request of the run
C13_Witness ==
    /\ pc = "done"
    /\ faults = << <<"A", "APIConnectionError">> >>
    /\ requests = <<"A">>

\* get_fixed_commitments is asking a follow-up question
AtFollowUp == qpc = "commitments" /\ entry # <<>>

\* the text held for the i-th commitment, from its five answers
StoredText(i) ==
    LET a == AnswersOf(i)
    IN  a[1] \o <<" (">> \o a[5] \o <<") on ">> \o a[2] \o <<" from ">> \o a[3]
            \o <<" to ">> \o a[4]

C14_Inv ==
    LET names == typed["commitments"]
        fields == typed["fields"]
    IN  /\ qpc = "commitments" =>
              /\ Len(names) = Len(commitments) + (IF entry = <<>> THEN 0 ELSE 1)
              /\ Len(fields) =
                    4 * Len(commitments) + (IF entry = <<>> THEN 0 ELSE Len(entry) - 1)
              /\ \A i \in 1..Len(commitments) : commitments[i] = StoredText(i)
              /\ \A i \in 1..Len(names) : ~DoneAnyCase(get_input(names[i]))
        /\ "commitments" \in DOMAIN responses =>
              /\ Len(responses["commitments"]) =
                    Cardinality({i \in 1..Len(names) : ~DoneAnyCase(get_input(names[i]))})
              /\ DoneAnyCase(get_input(names[Len(names)]))
              /\ Len(fields) = 4 * Len(responses["commitments"])
              /\ \A i \in 1..Len(responses["commitments"]) :
                    responses["commitments"][i] = StoredText(i)

C14_Step ==
    AtFollowUp =>
        /\ qpc' = "commitments"
        /\ responses' = responses
        /\ Len(typed'["fields"]) = Len(typed["fields"]) + 1
        /\ typed'["commitments"] = typed["commitments"]
        /\ Len(commitments') = Len(commitments) + (IF Len(entry) = 4 THEN 1 ELSE 0)

\* C14: get_fixed_commitments looks for the terminator at the event-name
\* question only: after a name that is not the terminator it takes exactly
\* four more answers whatever they are, "done" among them is kept as the
\* text of that field and the collection goes on; the list returned has one
\* commitment for each name entered before the first terminator name.
C14_DoneOnlyAtName == []C14_Inv /\ [][C14_Step]_vars

\* "done" answered at three of the four follow-up questions of the only
\* commitment: all kept as text, the collection ended at the next name
C14_Witness ==
    /\ "commitments" \in DOMAIN responses
    /\ typed["commitments"] = << <<"C", "h", "e", "m">>, <<"d", "o", "n", "e">> >>
    /\ typed["fields"] =
          << <<"d", "o", "n", "e">>, <<"D", "o", "n", "e">>, <<"1", "0">>,
             <<"D", "O", "N", "E">> >>
    /\ responses["commitments"] =
          << <<"C", "h", "e", "m", " (", "D", "O", "N", "E", ") on ", "d", "o", "n", "e",
               " from ", "D", "o", "n", "e", " to ", "1", "0">> >>

=============================================================================
